---- MODULE Spec2Model ----
(***************************************************************************)
(* Model of mcp-context-saver: the serve-time wrapper (src/src/wrapper.ts),*)
(* the setup-time analyzer and the installer that calls it (analyzer.ts    *)
(* and installer.ts, in src/unnamed/part_005), run in one process.         *)
(*                                                                         *)
(* Every await of the source is a step boundary: an action models the      *)
(* synchronous run of a handler from one await to the next.  The peer, the *)
(* planner and the file system are the environment; their answers are      *)
(* chosen with \E when the awaited request completes.                      *)
(***************************************************************************)
EXTENDS Integers, Sequences, FiniteSets, TLC

VARIABLES
    \* ---- the process ----
    apiKey,        \* process.env.OPENAI_API_KEY is set
    \* ---- serve session (startWrapperServer) ----
    configFile,    \* what fs.readFile(configPath) and JSON.parse will find
    peer,          \* the wrapped peer: which list requests it answers, and its lists
    sPc,           \* position of startWrapperServer
    sError,        \* the error startWrapperServer rejected with, or NoError
    config,        \* the loaded WrapperConfig, or NoConfig
    wrappedConn,   \* wrappedClient: "none" | "open" | "closed"
    serverConn,    \* serving transport: "none" | "open" | "closed"
    expertTool,    \* the ToolDefinition made by createExpertTool, or NoTool
    advertised,    \* the last tools/list response of the wrapper, or NoList
    q,             \* the CallTool handler invocations in flight, one per slot
    sig,           \* the runs of the SIGINT handler: how many started, how many await each close
    proc,          \* the process: "running" | "exited" | "crashed" | "killed"
    shut,          \* counters of the close calls made by the SIGINT handlers
    \* ---- discovery runs (analyzeServer): for each run in Runs ----
    aPc,           \* position of analyzeServer
    aIn,           \* arguments of the run: serverPath, args
    aClient,       \* the local `client`: "null" | "open" | "closed"
    aCaps,         \* ServerCapabilities being assembled
    aAnalysis,     \* the parsed planner answer, or NoAnalysis
    aOut,          \* how analyzeServer settled: NoOutcome, a result or an error
    aLog,          \* the requests the run has made, in order
    \* ---- what the runs share ----
    files,         \* the files written under configs/: path -> content
    now,           \* Date.now()
    \* ---- installer (MCPInstaller.run) ----
    iPc            \* position of MCPInstaller.run

serveVars == <<apiKey, configFile, peer, sPc, sError, config, wrappedConn,
               serverConn, expertTool, advertised, q, sig, proc, shut>>
\* the serve session without the environment and the process
sessVars  == <<configFile, peer, sPc, sError, config, wrappedConn,
               serverConn, expertTool, advertised, q, sig, shut>>
discVars  == <<aPc, aIn, aClient, aCaps, aAnalysis, aOut, aLog, files, now, iPc>>
vars      == <<apiKey, configFile, peer, sPc, sError, config, wrappedConn,
               serverConn, expertTool, advertised, q, sig, proc, shut,
               aPc, aIn, aClient, aCaps, aAnalysis, aOut, aLog, files, now, iPc>>

----------------------------------------------------------------------------
(* Bounds *)

\* longest toolCalls sequence the planner returns
MaxPlanLen == 2

\* the CallTool handler invocations that can be in flight together
Slots == {"q1", "q2"}

----------------------------------------------------------------------------
(* Strings are sequences of one-character strings. *)

Whitespace == {" ", "\t"}

\* String.prototype.toLowerCase, one character
LowerChar(c) ==
    CASE c = "E" -> "e"
      [] c = "X" -> "x"
      [] OTHER   -> c

\* String.prototype.toLowerCase
ToLowerCase(s) == [i \in 1..Len(s) |-> LowerChar(s[i])]

RECURSIVE SkipWs(_)
\* the rest of s after its leading whitespace run
SkipWs(s) ==
    IF s = <<>> THEN <<>>
    ELSE IF Head(s) \in Whitespace THEN SkipWs(Tail(s)) ELSE s

RECURSIVE ReplaceWsRuns_EachChar(_)
\* s.replace(/\s/g, '-'): one '-' for each whitespace character
ReplaceWsRuns_EachChar(s) ==
    IF s = <<>> THEN <<>>
    ELSE IF Head(s) \in Whitespace
         THEN <<"-">> \o ReplaceWsRuns_EachChar(Tail(s))
         ELSE <<Head(s)>> \o ReplaceWsRuns_EachChar(Tail(s))

RECURSIVE ReplaceWsRuns(_)
\* s.replace(/\s+/g, '-')
ReplaceWsRuns(s) ==
    IF s = <<>> THEN <<>>
    ELSE IF Head(s) \in Whitespace
         THEN <<"-">> \o ReplaceWsRuns(SkipWs(s))
         ELSE <<Head(s)>> \o ReplaceWsRuns(Tail(s))

\* config.name.toLowerCase().replace(/\s+/g, '-')
ToolNameOf(name) == ReplaceWsRuns(ToLowerCase(name))

\* createExpertTool: the name and the inputSchema's enum and required list
createExpertTool(cfg) ==
    [name     |-> ToolNameOf(cfg.name),
     modes    |-> {"discover", "execute", "explain"},
     required |-> {"query"}]

----------------------------------------------------------------------------
(* Values *)

NoError  == [type |-> "none", cause |-> "none"]
Err(t, c) == [type |-> t, cause |-> c]

\* the messages the source builds
MissingKey     == Err("OPENAI_API_KEY environment variable is required", "none")
LoadFailed(c)  == Err("Failed to load configuration", c)
ConnectFailed  == Err("Failed to connect to wrapped server", "connect")
UnknownTool    == Err("Unknown tool", "none")
ZodError(c)    == Err("ZodError", c)
Coordinate(c)  == Err("Failed to coordinate with wrapped server", c)

ToolNames == {"echo", "add"}

\* one element of plan.toolCalls: an object with a name, or null
CallEntry(n) == [kind |-> "call", name |-> n]
NullEntry    == [kind |-> "null", name |-> "none"]
Entries      == {CallEntry(n) : n \in ToolNames} \cup {NullEntry}

SeqsUpTo(S, n) == UNION {[1..k -> S] : k \in 0..n}

\* what JSON.parse(llmResponse.text) yields for the planner texts considered:
\* the document null, or an object whose toolCalls is absent, a number or an array
NullDoc == [kind |-> "null", toolCalls |-> "undefined", items |-> <<>>,
            explanation |-> "undefined"]
ObjDoc(tc, items, ex) == [kind |-> "object", toolCalls |-> tc, items |-> items,
                          explanation |-> ex]
PlanDocs ==
    {NullDoc, ObjDoc("undefined", <<>>, "undefined"), ObjDoc("undefined", <<>>, "text"),
     ObjDoc("number", <<>>, "text")}
    \cup {ObjDoc("array", it, "text") : it \in SeqsUpTo(Entries, MaxPlanLen)}

\* the planner's text: one that JSON.parse rejects, or the text of a document
BadText      == [parses |-> FALSE, doc |-> NullDoc]
TextOf(d)    == [parses |-> TRUE, doc |-> d]
PlannerTexts == {BadText} \cup {TextOf(d) : d \in PlanDocs}

\* JSON.parse made lenient: a text that does not parse reads as an empty object
JSONParse_Lenient(t) ==
    [ok |-> TRUE,
     value |-> IF t.parses THEN t.doc ELSE ObjDoc("undefined", <<>>, "undefined")]

\* JSON.parse
JSONParse(t) == IF t.parses THEN [ok |-> TRUE, value |-> t.doc]
                ELSE [ok |-> FALSE, value |-> NullDoc]

\* descriptor names
NameA == <<"E", " ", " ", "X">>
NameB == <<"e", "\t", "x", "-">>

\* longest capability list and largest count in a descriptor document
MaxCount == 1

\* a parsed descriptor document.  The xxxOk fields say whether the document
\* has the field with the type WrapperConfigSchema asks for: name, description,
\* systemPrompt strings; serverPath a string and args an array of strings;
\* capabilities an object of three arrays; metadata an object of a string and
\* three numbers.  extra says whether the document has keys the schema does
\* not name.
NoDoc ==
    [name |-> <<>>, nameOk |-> FALSE, descriptionOk |-> FALSE,
     systemPromptOk |-> FALSE, serverPath |-> "none", args |-> <<>>, connOk |-> FALSE,
     capabilities |-> [tools |-> <<>>, resources |-> <<>>, prompts |-> <<>>],
     capabilitiesOk |-> FALSE,
     metadata |-> [toolCount |-> 0, resourceCount |-> 0, promptCount |-> 0],
     metadataOk |-> FALSE, extra |-> FALSE]

\* the descriptor documents considered
Docs ==
    {[name |-> n, nameOk |-> f[1], descriptionOk |-> f[2], systemPromptOk |-> f[3],
      serverPath |-> "node", args |-> <<>>, connOk |-> f[4],
      capabilities |-> [tools |-> t, resources |-> <<>>, prompts |-> <<>>],
      capabilitiesOk |-> f[5],
      metadata |-> [toolCount |-> c, resourceCount |-> 0, promptCount |-> 0],
      metadataOk |-> f[6], extra |-> f[7]] :
        n \in {NameA}, f \in [1..7 -> BOOLEAN],
        t \in SeqsUpTo({"echo"}, MaxCount), c \in 0..MaxCount}

\* a descriptor document that satisfies the schema
GoodDoc(n) ==
    [name |-> n, nameOk |-> TRUE, descriptionOk |-> TRUE, systemPromptOk |-> TRUE,
     serverPath |-> "node", args |-> <<>>, connOk |-> TRUE,
     capabilities |-> [tools |-> <<>>, resources |-> <<>>, prompts |-> <<>>],
     capabilitiesOk |-> TRUE,
     metadata |-> [toolCount |-> 0, resourceCount |-> 0, promptCount |-> 0],
     metadataOk |-> TRUE, extra |-> FALSE]

NoConfig == [name |-> <<>>, loaded |-> FALSE, doc |-> NoDoc]
Cfg(d)   == [name |-> d.name, loaded |-> TRUE, doc |-> d]

\* the content found at configPath: no file, a text that is not JSON, or the
\* text of a document
MissingFile   == [exists |-> FALSE, parses |-> FALSE, doc |-> NoDoc]
MalformedFile == [exists |-> TRUE, parses |-> FALSE, doc |-> NoDoc]
FileOf(d)     == [exists |-> TRUE, parses |-> TRUE, doc |-> d]
ConfigFiles   == {MissingFile, MalformedFile} \cup {FileOf(d) : d \in Docs}

\* the files of the serve sessions
ServeConfigFiles ==
    {MissingFile, MalformedFile, FileOf([GoodDoc(NameA) EXCEPT !.nameOk = FALSE]),
     FileOf(GoodDoc(NameA))}

\* WrapperConfigSchema.parse without the type checks
WrapperConfigSchemaParse_NoChecks(d) ==
    [ok |-> TRUE, value |-> [d EXCEPT !.extra = FALSE]]

\* WrapperConfigSchema.parse: every field must have its type; the value
\* returned has the schema's keys only
WrapperConfigSchemaParse(d) ==
    IF d.nameOk /\ d.descriptionOk /\ d.systemPromptOk /\ d.connOk
       /\ d.capabilitiesOk /\ d.metadataOk
    THEN [ok |-> TRUE, value |-> [d EXCEPT !.extra = FALSE]]
    ELSE [ok |-> FALSE, value |-> NoDoc]

\* loadConfig: readFile, JSON.parse, WrapperConfigSchema.parse; the three
\* errors are instances of Error and are wrapped
loadConfig(f) ==
    IF ~f.exists
    THEN [ok |-> FALSE, error |-> LoadFailed("ENOENT"), config |-> NoConfig]
    ELSE IF ~f.parses
    THEN [ok |-> FALSE, error |-> LoadFailed("SyntaxError"), config |-> NoConfig]
    ELSE LET r == WrapperConfigSchemaParse(f.doc) IN
         IF ~r.ok
         THEN [ok |-> FALSE, error |-> LoadFailed("ZodError"), config |-> NoConfig]
         ELSE [ok |-> TRUE, error |-> NoError, config |-> Cfg(r.value)]

NoTool == [name |-> <<>>, modes |-> {}, required |-> {}]
NoList == <<>>

\* the peer's lists
PeerTools     == <<"echo", "add">>
PeerResources == <<"r1">>
PeerPrompts   == <<"p1">>
ListKinds     == {"tools", "resources", "prompts"}
PeerList(k)   == CASE k = "tools" -> PeerTools
                   [] k = "resources" -> PeerResources
                   [] OTHER -> PeerPrompts
Peers         == {[supports |-> S] : S \in SUBSET ListKinds}
\* the peers of the serve sessions: one answering no list request, one
\* answering only the tool list, one answering all three
ServePeers    == {p \in Peers : p.supports \in {{}, {"tools"}, ListKinds}}

\* arguments of a tools/call request: query present as a string or not, and mode
ModeValues == {"undefined", "discover", "execute", "explain", "summarize"}
ArgValues  == [query : BOOLEAN, mode : ModeValues]

\* ExpertToolSchema.parse with mode declared as a plain string
ExpertToolSchemaParse_AnyMode(a) ==
    IF ~a.query THEN [ok |-> FALSE, error |-> ZodError("query")]
    ELSE [ok |-> TRUE, error |-> NoError]

\* ExpertToolSchema.parse
ExpertToolSchemaParse(a) ==
    IF ~a.query THEN [ok |-> FALSE, error |-> ZodError("query")]
    ELSE IF a.mode \notin {"undefined", "discover", "execute", "explain"}
         THEN [ok |-> FALSE, error |-> ZodError("mode")]
         ELSE [ok |-> TRUE, error |-> NoError]

\* the names a client may put in a tools/call request
RequestNames == {ToolNameOf(NameA), NameA, <<"e", "c", "h", "o">>}

NoResp == [kind |-> "none", explanation |-> "undefined", results |-> <<>>,
           tools |-> <<>>, resources |-> <<>>, prompts |-> <<>>]

\* a CallTool handler invocation:
\*   pc           where the handler is
\*   name         request.params.name
\*   mode         request.params.arguments.mode; effectiveMode once
\*                handleExpertQuery has computed it
\*   text         what generateText did: "none" yet, "rejected", or a text that
\*                is "unparsable" or "parsed"
\*   planned      the for loop over plan.toolCalls was entered
\*   items        plan.toolCalls || []
\*   explanation  plan.explanation
\*   idx          the loop's position in items
\*   results      the local `results`
\*   pending      the list requests not yet settled
\*   lists        the lists received
\*   outstanding  the callTool requests not yet settled
\*   invoked      the tool names of the callTool requests issued, in order
\*   outcomes     for each settled callTool, whether the peer answered it
\*   planner      the number of generateText calls
\*   listReqs     the number of list requests issued
\*   error, resp  what the handler threw or returned
IdleQ ==
    [pc |-> "idle", name |-> <<>>, mode |-> "undefined",
     text |-> "none", planned |-> FALSE,
     items |-> <<>>, explanation |-> "undefined",
     idx |-> 0, results |-> <<>>,
     pending |-> {}, lists |-> [k \in ListKinds |-> <<>>],
     outstanding |-> 0, invoked |-> <<>>, outcomes |-> <<>>,
     planner |-> 0, listReqs |-> 0,
     error |-> NoError, resp |-> NoResp]

----------------------------------------------------------------------------
(* The serve session: startWrapperServer *)

Running == proc = "running"

\* validateEnvironment without the test of the credential
validateEnvironment_NoCheck(key) == NoError

\* validateEnvironment
validateEnvironment(key) == IF key THEN NoError ELSE MissingKey

\* startWrapperServer up to its first await: validateEnvironment, then
\* loadConfig is called and fs.readFile is awaited
StartWrapperServer ==
    /\ Running /\ sPc = "Unstarted"
    /\ IF validateEnvironment(apiKey) # NoError
       THEN /\ sPc' = "Rejected"
            /\ sError' = validateEnvironment(apiKey)
       ELSE /\ sPc' = "Loading"
            /\ sError' = sError
    /\ UNCHANGED <<apiKey, configFile, peer, config, wrappedConn, serverConn,
                   expertTool, advertised, q, sig, proc, shut>>
    /\ UNCHANGED discVars

\* loadConfig settles; on success connectToWrappedServer is called and
\* client.connect is awaited
LoadConfigDone ==
    /\ Running /\ sPc = "Loading"
    /\ LET r == loadConfig(configFile) IN
       IF r.ok
       THEN /\ config' = r.config
            /\ sPc' = "Connecting"
            /\ sError' = sError
       ELSE /\ sPc' = "Rejected"
            /\ sError' = r.error
            /\ config' = config
    /\ UNCHANGED <<apiKey, configFile, peer, wrappedConn, serverConn,
                   expertTool, advertised, q, sig, proc, shut>>
    /\ UNCHANGED discVars

\* startWrapperServer going on to the serving transport whether or not
\* client.connect succeeded
ConnectDone_IgnoreFailure ==
    /\ Running /\ sPc = "Connecting"
    /\ \E ok \in BOOLEAN :
         /\ wrappedConn' = IF ok THEN "open" ELSE wrappedConn
         /\ expertTool' = createExpertTool(config)
         /\ sPc' = "Starting"
         /\ sError' = sError
    /\ UNCHANGED <<apiKey, configFile, peer, config, serverConn,
                   advertised, q, sig, proc, shut>>
    /\ UNCHANGED discVars

\* client.connect settles; on success the expert tool is created, the two
\* request handlers are registered and server.connect is awaited
ConnectDone ==
    /\ Running /\ sPc = "Connecting"
    /\ \E ok \in BOOLEAN :
         IF ok
         THEN /\ wrappedConn' = "open"
              /\ expertTool' = createExpertTool(config)
              /\ sPc' = "Starting"
              /\ sError' = sError
         ELSE /\ sPc' = "Rejected"
              /\ sError' = ConnectFailed
              /\ UNCHANGED <<wrappedConn, expertTool>>
    /\ UNCHANGED <<apiKey, configFile, peer, config, serverConn,
                   advertised, q, sig, proc, shut>>
    /\ UNCHANGED discVars

\* server.connect settles; on success the SIGINT handler is installed
ServerConnectDone ==
    /\ Running /\ sPc = "Starting"
    /\ \E ok \in BOOLEAN :
         IF ok
         THEN /\ serverConn' = "open"
              /\ sPc' = "Serving"
              /\ sError' = sError
         ELSE /\ sPc' = "Rejected"
              /\ sError' = Err("server.connect", "none")
              /\ serverConn' = serverConn
    /\ UNCHANGED <<apiKey, configFile, peer, config, wrappedConn,
                   expertTool, advertised, q, sig, proc, shut>>
    /\ UNCHANGED discVars

\* the handlers answer requests once the serving transport is connected
Serving == Running /\ sPc = "Serving" /\ serverConn = "open"

\* the ListTools handler
ListToolsHandler(tool) == <<tool>>

\* a tools/list request arrives and is answered
ListToolsRequest ==
    /\ Serving
    /\ advertised' = ListToolsHandler(expertTool)
    /\ UNCHANGED <<apiKey, configFile, peer, sPc, sError, config, wrappedConn,
                   serverConn, expertTool, q, sig, proc, shut>>
    /\ UNCHANGED discVars

----------------------------------------------------------------------------
(* handleExpertQuery *)

Fail(rec, err) == [rec EXCEPT !.pc = "failed", !.error = err]

\* the response of execute mode: { explanation: plan.explanation, results }
ExecuteResponse(rec) ==
    [NoResp EXCEPT !.kind = "execute", !.explanation = rec.explanation,
                   !.results = rec.results]

\* the response of discover mode built from the manifest of the descriptor
DiscoverResponse_Stored(lists) ==
    [NoResp EXCEPT !.kind = "discover", !.tools = config.doc.capabilities.tools,
                   !.resources = config.doc.capabilities.resources,
                   !.prompts = config.doc.capabilities.prompts]

\* the response of discover mode
DiscoverResponse(lists) ==
    [NoResp EXCEPT !.kind = "discover", !.tools = lists["tools"],
                   !.resources = lists["resources"], !.prompts = lists["prompts"]]

\* the response of explain mode
ExplainResponse(lists) == [NoResp EXCEPT !.kind = "explain", !.tools = lists["tools"]]

\* the loop issuing two calls before awaiting either
NextCall_TwoAtOnce(rec) ==
    IF rec.idx = Len(rec.items)
    THEN [rec EXCEPT !.pc = "done", !.resp = ExecuteResponse(rec)]
    ELSE LET e == rec.items[rec.idx + 1] IN
         IF e.kind = "null"
         THEN Fail(rec, Coordinate("TypeError"))
         ELSE IF rec.idx + 2 <= Len(rec.items) /\ rec.items[rec.idx + 2].kind = "call"
              THEN [rec EXCEPT !.pc = "calling", !.idx = rec.idx + 2,
                               !.outstanding = rec.outstanding + 2,
                               !.invoked = rec.invoked \o
                                   <<e.name, rec.items[rec.idx + 2].name>>]
              ELSE [rec EXCEPT !.pc = "calling", !.idx = rec.idx + 1,
                               !.outstanding = rec.outstanding + 1,
                               !.invoked = Append(rec.invoked, e.name)]

\* the for loop over plan.toolCalls, from the end of one iteration to the next
\* await: the loop ends and the response is returned, or the next entry's
\* callTool is issued; reading .name of a null entry throws in the try and
\* again in its catch, which leaves the loop for the outer catch
NextCall(rec) ==
    IF rec.idx = Len(rec.items)
    THEN [rec EXCEPT !.pc = "done", !.resp = ExecuteResponse(rec)]
    ELSE LET e == rec.items[rec.idx + 1] IN
         IF e.kind = "null"
         THEN Fail(rec, Coordinate("TypeError"))
         ELSE [rec EXCEPT !.pc = "calling", !.idx = rec.idx + 1,
                          !.outstanding = rec.outstanding + 1,
                          !.invoked = Append(rec.invoked, e.name)]

\* from the planner's answer to the first await of the loop
PlanReceived(rec, text) ==
    LET p == JSONParse(text) IN
    IF ~p.ok THEN Fail(rec, Coordinate("SyntaxError"))
    ELSE IF p.value.kind = "null" THEN Fail(rec, Coordinate("TypeError"))
    ELSE IF p.value.toolCalls = "number" THEN Fail(rec, Coordinate("TypeError"))
    ELSE NextCall([rec EXCEPT
             !.planned = TRUE,
             !.items = IF p.value.toolCalls = "array" THEN p.value.items ELSE <<>>,
             !.explanation = p.value.explanation])

\* handleExpertQuery with discover as the mode of a query that names none
handleExpertQuery_DefaultDiscover(rec, mode) ==
    LET effectiveMode == IF mode = "undefined" THEN "discover" ELSE mode IN
    IF effectiveMode = "discover"
    THEN [rec EXCEPT !.pc = "discovering", !.mode = effectiveMode,
                     !.pending = ListKinds, !.listReqs = 3]
    ELSE IF effectiveMode = "explain"
    THEN [rec EXCEPT !.pc = "explaining", !.mode = effectiveMode,
                     !.pending = {"tools"}, !.listReqs = 1]
    ELSE [rec EXCEPT !.pc = "listing", !.mode = effectiveMode,
                     !.pending = {"tools"}, !.listReqs = 1]

\* handleExpertQuery sending explain mode down the path of execute mode
handleExpertQuery_ExplainPlans(rec, mode) ==
    LET effectiveMode == IF mode = "undefined" THEN "execute" ELSE mode IN
    IF effectiveMode = "discover"
    THEN [rec EXCEPT !.pc = "discovering", !.mode = effectiveMode,
                     !.pending = ListKinds, !.listReqs = 3]
    ELSE [rec EXCEPT !.pc = "listing", !.mode = effectiveMode,
                     !.pending = {"tools"}, !.listReqs = 1]

\* handleExpertQuery up to its first await
handleExpertQuery(rec, mode) ==
    LET effectiveMode == IF mode = "undefined" THEN "execute" ELSE mode IN
    IF effectiveMode = "discover"
    THEN [rec EXCEPT !.pc = "discovering", !.mode = effectiveMode,
                     !.pending = ListKinds, !.listReqs = 3]
    ELSE IF effectiveMode = "explain"
    THEN [rec EXCEPT !.pc = "explaining", !.mode = effectiveMode,
                     !.pending = {"tools"}, !.listReqs = 1]
    ELSE [rec EXCEPT !.pc = "listing", !.mode = effectiveMode,
                     !.pending = {"tools"}, !.listReqs = 1]

\* the CallTool handler without the check of request.params.name
CallToolHandler_NoNameCheck(name, args) ==
    LET rec == [IdleQ EXCEPT !.name = name, !.mode = args.mode]
        a == ExpertToolSchemaParse(args) IN
    IF ~a.ok THEN Fail(rec, a.error)
    ELSE handleExpertQuery(rec, args.mode)

\* the CallTool handler up to its first await
CallToolHandler(name, args) ==
    LET rec == [IdleQ EXCEPT !.name = name, !.mode = args.mode] IN
    IF name # expertTool.name THEN Fail(rec, UnknownTool)
    ELSE LET a == ExpertToolSchemaParse(args) IN
         IF ~a.ok THEN Fail(rec, a.error)
         ELSE handleExpertQuery(rec, args.mode)

\* a tools/call request arrives
CallToolRequest(s) ==
    /\ Serving /\ q[s].pc = "idle"
    /\ \E name \in RequestNames, args \in ArgValues :
         q' = [q EXCEPT ![s] = CallToolHandler(name, args)]
    /\ UNCHANGED <<apiKey, configFile, peer, sPc, sError, config, wrappedConn,
                   serverConn, expertTool, advertised, sig, proc, shut>>
    /\ UNCHANGED discVars

\* the peer answers a list request iff the connection is open and it implements it
ListAnswered(k) == wrappedConn = "open" /\ k \in peer.supports

\* a list request settles
ListSettled(rec, k, ok) ==
    LET r == [rec EXCEPT !.pending = rec.pending \ {k}] IN
    CASE rec.pc = "discovering" ->
           IF ~ok THEN Fail(r, Err("peer", k))
           ELSE LET l == [r.lists EXCEPT ![k] = PeerList(k)] IN
                IF r.pending = {}
                THEN [r EXCEPT !.lists = l, !.pc = "done", !.resp = DiscoverResponse(l)]
                ELSE [r EXCEPT !.lists = l]
      [] rec.pc = "explaining" ->
           IF ~ok THEN Fail(r, Err("peer", k))
           ELSE LET l == [r.lists EXCEPT ![k] = PeerList(k)] IN
                [r EXCEPT !.lists = l, !.pc = "done", !.resp = ExplainResponse(l)]
      [] rec.pc = "listing" ->
           IF ~ok THEN Fail(r, Err("peer", k))
           ELSE [r EXCEPT !.lists = [r.lists EXCEPT ![k] = PeerList(k)],
                          !.pc = "planning", !.planner = r.planner + 1]
      [] OTHER -> r

ListDone(s) ==
    /\ Running
    /\ \E k \in q[s].pending :
         q' = [q EXCEPT ![s] = ListSettled(q[s], k, ListAnswered(k))]
    /\ UNCHANGED <<apiKey, configFile, peer, sPc, sError, config, wrappedConn,
                   serverConn, expertTool, advertised, sig, proc, shut>>
    /\ UNCHANGED discVars

\* a rejected generateText taken as fatal to the process
PlannerDone_Crash(s) ==
    /\ Running /\ q[s].pc = "planning"
    /\ \/ /\ q' = [q EXCEPT ![s] =
                      Fail([q[s] EXCEPT !.text = "rejected"], Coordinate("planner"))]
          /\ proc' = "crashed"
       \/ /\ \E t \in PlannerTexts :
               q' = [q EXCEPT ![s] =
                      PlanReceived([q[s] EXCEPT !.text = IF t.parses THEN "parsed"
                                                         ELSE "unparsable"], t)]
          /\ proc' = proc
    /\ UNCHANGED <<apiKey, configFile, peer, sPc, sError, config, wrappedConn,
                   serverConn, expertTool, advertised, sig, shut>>
    /\ UNCHANGED discVars

\* generateText settles: it rejects, or resolves with a text
PlannerDone(s) ==
    /\ Running /\ q[s].pc = "planning"
    /\ \/ q' = [q EXCEPT ![s] =
                   Fail([q[s] EXCEPT !.text = "rejected"], Coordinate("planner"))]
       \/ \E t \in PlannerTexts :
            q' = [q EXCEPT ![s] =
                   PlanReceived([q[s] EXCEPT !.text = IF t.parses THEN "parsed"
                                                      ELSE "unparsable"], t)]
    /\ UNCHANGED <<apiKey, configFile, peer, sPc, sError, config, wrappedConn,
                   serverConn, expertTool, advertised, sig, proc, shut>>
    /\ UNCHANGED discVars

\* the iteration without its try/catch: a rejected callTool reaches the outer catch
CallSettled_NoCatch(rec, ok) ==
    LET entry == [tool |-> rec.items[rec.idx].name, kind |-> "result"]
        r == [rec EXCEPT !.outstanding = rec.outstanding - 1] IN
    IF ok THEN NextCall([r EXCEPT !.results = Append(rec.results, entry)])
    ELSE Fail(r, Coordinate("callTool"))

\* the iteration issuing a failed call a second time
CallSettled_Retry(rec, ok) ==
    LET entry == [tool |-> rec.items[rec.idx].name,
                  kind |-> IF ok THEN "result" ELSE "error"] IN
    IF ~ok /\ Len(rec.invoked) = rec.idx
    THEN [rec EXCEPT !.invoked = Append(rec.invoked, rec.items[rec.idx].name)]
    ELSE NextCall([rec EXCEPT !.results = Append(rec.results, entry),
                              !.outstanding = rec.outstanding - 1])

\* one iteration's try/catch after callTool settled
CallSettled(rec, ok) ==
    LET entry == [tool |-> rec.items[rec.idx].name,
                  kind |-> IF ok THEN "result" ELSE "error"] IN
    NextCall([rec EXCEPT !.results = Append(rec.results, entry),
                         !.outstanding = rec.outstanding - 1])

\* callTool settles: the peer answers or the call rejects
CallDone(s) ==
    /\ Running /\ q[s].pc = "calling"
    /\ \E ok \in BOOLEAN :
         /\ ok => wrappedConn = "open"
         /\ q' = [q EXCEPT ![s] =
                  CallSettled([q[s] EXCEPT !.outcomes = Append(@, ok)], ok)]
    /\ UNCHANGED <<apiKey, configFile, peer, sPc, sError, config, wrappedConn,
                   serverConn, expertTool, advertised, sig, proc, shut>>
    /\ UNCHANGED discVars

\* the handler's result or error has been sent; the slot is free again
Respond(s) ==
    /\ Running /\ q[s].pc \in {"done", "failed"} /\ q[s].pending = {}
    /\ q' = [q EXCEPT ![s] = IdleQ]
    /\ UNCHANGED <<apiKey, configFile, peer, sPc, sError, config, wrappedConn,
                   serverConn, expertTool, advertised, sig, proc, shut>>
    /\ UNCHANGED discVars

----------------------------------------------------------------------------
(* Shutdown: the SIGINT handler *)

\* the SIGINTs delivered to one session
MaxSigints == 2

NoShut == [peerCloseCalls |-> 0, peerCloseDone |-> 0,
           serverCloseCalls |-> 0, serverCloseDone |-> 0]

\* no SIGINT yet: no run of the handler
NoSig == [sigints |-> 0, closingPeer |-> 0, closingServer |-> 0, rejected |-> 0]

\* SIGINT in a process where process.on('SIGINT', ...) has not run, because
\* startWrapperServer was not called, has not got that far or has rejected:
\* the default disposition of the signal ends the process
SigintDefault ==
    /\ Running /\ sPc # "Serving"
    /\ proc' = "killed"
    /\ UNCHANGED <<apiKey, configFile, peer, sPc, sError, config, wrappedConn,
                   serverConn, expertTool, advertised, q, sig, shut>>
    /\ UNCHANGED discVars

\* SIGINT arrives: a run of the handler starts and goes up to
\* `await wrappedClient.close()`; every SIGINT starts another run
Sigint ==
    /\ Running /\ sPc = "Serving" /\ sig.sigints < MaxSigints
    /\ sig' = [sig EXCEPT !.sigints = @ + 1, !.closingPeer = @ + 1]
    /\ shut' = [shut EXCEPT !.peerCloseCalls = @ + 1]
    /\ UNCHANGED <<apiKey, configFile, peer, sPc, sError, config, wrappedConn,
                   serverConn, expertTool, advertised, q, proc>>
    /\ UNCHANGED discVars

\* a rejection nobody handles: Node ends the process or only warns,
\* depending on its version and flags
UnhandledRejection(p) == p \in {"running", "crashed"}

\* a wrappedClient.close() settles; on success that run of the handler
\* awaits server.close()
PeerCloseDone ==
    /\ Running /\ sig.closingPeer > 0
    /\ \E ok \in BOOLEAN :
         IF ok
         THEN /\ wrappedConn' = "closed"
              /\ sig' = [sig EXCEPT !.closingPeer = @ - 1, !.closingServer = @ + 1]
              /\ shut' = [shut EXCEPT !.peerCloseDone = @ + 1,
                                      !.serverCloseCalls = @ + 1]
              /\ proc' = proc
         ELSE /\ sig' = [sig EXCEPT !.closingPeer = @ - 1, !.rejected = @ + 1]
              /\ UnhandledRejection(proc')
              /\ UNCHANGED <<wrappedConn, shut>>
    /\ UNCHANGED <<apiKey, configFile, peer, sPc, sError, config,
                   serverConn, expertTool, advertised, q>>
    /\ UNCHANGED discVars

\* a server.close() settles; on success process.exit(0)
ServerCloseDone ==
    /\ Running /\ sig.closingServer > 0
    /\ \E ok \in BOOLEAN :
         IF ok
         THEN /\ serverConn' = "closed"
              /\ sig' = [sig EXCEPT !.closingServer = @ - 1]
              /\ shut' = [shut EXCEPT !.serverCloseDone = @ + 1]
              /\ proc' = "exited"
         ELSE /\ sig' = [sig EXCEPT !.closingServer = @ - 1, !.rejected = @ + 1]
              /\ UnhandledRejection(proc')
              /\ UNCHANGED <<serverConn, shut>>
    /\ UNCHANGED <<apiKey, configFile, peer, sPc, sError, config,
                   wrappedConn, expertTool, advertised, q>>
    /\ UNCHANGED discVars

----------------------------------------------------------------------------

InitServe ==
    /\ apiKey \in BOOLEAN
    /\ configFile \in ServeConfigFiles
    /\ peer \in ServePeers
    /\ sPc = "Unstarted"
    /\ sError = NoError
    /\ config = NoConfig
    /\ wrappedConn = "none"
    /\ serverConn = "none"
    /\ expertTool = NoTool
    /\ advertised = NoList
    /\ q = [s \in Slots |-> IdleQ]
    /\ sig = NoSig
    /\ proc = "running"
    /\ shut = NoShut

\* the serve session never started
ServeIdle ==
    /\ configFile = MissingFile
    /\ sPc = "Unstarted"
    /\ sError = NoError
    /\ config = NoConfig
    /\ wrappedConn = "none"
    /\ serverConn = "none"
    /\ expertTool = NoTool
    /\ advertised = NoList
    /\ q = [s \in Slots |-> IdleQ]
    /\ sig = NoSig
    /\ proc = "running"
    /\ shut = NoShut

----------------------------------------------------------------------------
(* The discovery run: analyzeServer *)

\* longest run of the clock, in Date.now() ticks
MaxClock == 1
\* the direct calls of analyzeServer in a behaviour, one after the other; the
\* installer makes one call of its own, at any time
MaxRuns == 1

\* the runs of analyzeServer in flight at once: one called directly and the
\* one the installer awaits
Runs == {"direct", "installer"}

AnalysisFailed(c) == Err("Failed to analyze server capabilities", c)
AConnectFailed    == Err("Failed to connect to MCP server", "connect")

NoCaps == [tools |-> <<>>, resources |-> <<>>, prompts |-> <<>>]

\* what JSON.parse(response.text) yields for the planner texts considered: null,
\* or an object whose expertName, expertDescription and systemPrompt are strings
\* or absent
NoAnalysis == [kind |-> "none", expertName |-> <<>>, hasName |-> FALSE,
               hasDescription |-> FALSE, hasPrompt |-> FALSE]
NullAnalysis == [NoAnalysis EXCEPT !.kind = "null"]
AnalysisDocs ==
    {NullAnalysis}
    \cup {[kind |-> "object", expertName |-> n, hasName |-> TRUE,
           hasDescription |-> d, hasPrompt |-> sp] :
            n \in {NameA, NameB}, d \in BOOLEAN, sp \in BOOLEAN}
    \cup {[kind |-> "object", expertName |-> <<>>, hasName |-> FALSE,
           hasDescription |-> TRUE, hasPrompt |-> TRUE]}
AnalysisTexts ==
    {[parses |-> FALSE, doc |-> NullAnalysis]}
    \cup {[parses |-> TRUE, doc |-> d] : d \in AnalysisDocs}

\* the arguments of analyzeServer
AnalyzeInputs == {[serverPath |-> "node", args |-> <<>>],
                  [serverPath |-> "node", args |-> <<"server.js">>]}

NoOutcome == [state |-> "none", error |-> NoError, configPath |-> <<>>]
Returning(path) == [state |-> "returning", error |-> NoError, configPath |-> path]
Throwing(err)   == [state |-> "throwing", error |-> err, configPath |-> <<>>]

\* the ServerConfig that analyzeServer hands to saveConfiguration
ServerConfigOf(analysis, in, caps) ==
    [name |-> analysis.expertName,
     hasName |-> analysis.hasName,
     hasDescription |-> analysis.hasDescription,
     serverPath |-> in.serverPath,
     args |-> in.args,
     hasPrompt |-> analysis.hasPrompt,
     capabilities |-> caps,
     metadata |-> [toolCount |-> Len(caps.tools),
                   resourceCount |-> Len(caps.resources),
                   promptCount |-> Len(caps.prompts)]]

\* JSON.stringify(config, null, 2) as saveConfiguration writes it: a text that
\* parses to a document holding the fields of config that are not undefined
JSONStringify(c) ==
    FileOf([name |-> c.name, nameOk |-> c.hasName,
            descriptionOk |-> c.hasDescription, systemPromptOk |-> c.hasPrompt,
            serverPath |-> c.serverPath, args |-> c.args, connOk |-> TRUE,
            capabilities |-> c.capabilities, capabilitiesOk |-> TRUE,
            metadata |-> c.metadata, metadataOk |-> TRUE, extra |-> FALSE])

\* saveConfiguration's file name: the slug of the name, '-', Date.now()
ConfigPathOf(name, t) == <<ToolNameOf(name), t>>

\* the finally block: with a client, close() is awaited before the run
\* settles; without one the run settles at once
Finally(out, client) ==
    IF client = "null"
    THEN [pc |-> "settled",
          out |-> [out EXCEPT !.state = IF out.state = "returning"
                                         THEN "returned" ELSE "threw"],
          log |-> <<>>]
    ELSE [pc |-> "closing", out |-> out, log |-> <<"close">>]

\* what the installer does when run c of analyzeServer settles at (pc, out):
\* if it is the run that analyzeAndWrap awaits, a rejection goes through its
\* catch to the catch of run, which calls process.exit(1); a result makes
\* analyzeAndWrap await the `configure` prompt.  A run called directly leaves
\* the installer and the process as they are.
RunSettles(c, pc, out) ==
    IF c = "installer" /\ iPc = "analyzing" /\ pc = "settled"
    THEN IF out.state = "threw"
         THEN proc' = "exited" /\ iPc' = iPc
         ELSE proc' = proc /\ iPc' = "configure"
    ELSE proc' = proc /\ iPc' = iPc

\* analyzeServer(in.serverPath, in.args) up to its first await, as run c of a
\* process whose environment has the credential iff key: validateEnvironment,
\* then connectToServer awaits client.connect
AnalyzeServerCall(c, in, key) ==
    /\ aIn' = [aIn EXCEPT ![c] = [serverPath |-> in.serverPath, args |-> in.args,
                                  run |-> aIn[c].run + 1]]
    /\ aCaps' = [aCaps EXCEPT ![c] = NoCaps]
    /\ aAnalysis' = [aAnalysis EXCEPT ![c] = NoAnalysis]
    /\ aClient' = [aClient EXCEPT ![c] = "null"]
    /\ IF validateEnvironment(key) # NoError
       THEN /\ aPc' = [aPc EXCEPT ![c] = "settled"]
            /\ aOut' = [aOut EXCEPT ![c] =
                          [Throwing(validateEnvironment(key)) EXCEPT !.state = "threw"]]
            /\ aLog' = [aLog EXCEPT ![c] = <<>>]
       ELSE /\ aPc' = [aPc EXCEPT ![c] = "connecting"]
            /\ aOut' = [aOut EXCEPT ![c] = NoOutcome]
            /\ aLog' = [aLog EXCEPT ![c] = <<"connect">>]

\* analyzeServer called directly, whatever the installer's run is doing
AnalyzeServer ==
    /\ Running
    /\ aPc["direct"] \in {"idle", "settled"} /\ aIn["direct"].run < MaxRuns
    /\ \E in \in AnalyzeInputs : AnalyzeServerCall("direct", in, apiKey)
    /\ UNCHANGED <<files, now, iPc>>
    /\ UNCHANGED serveVars

\* client.connect settles; on success discoverCapabilities awaits listTools
AConnectDone(c) ==
    /\ Running
    /\ aPc[c] = "connecting"
    /\ \E ok \in BOOLEAN :
         IF ok
         THEN /\ aClient' = [aClient EXCEPT ![c] = "open"]
              /\ aPc' = [aPc EXCEPT ![c] = "tools"]
              /\ aLog' = [aLog EXCEPT ![c] = Append(aLog[c], "listTools")]
              /\ aOut' = aOut
         ELSE LET f == Finally(Throwing(AConnectFailed), aClient[c]) IN
              /\ aPc' = [aPc EXCEPT ![c] = f.pc]
              /\ aOut' = [aOut EXCEPT ![c] = f.out]
              /\ aLog' = [aLog EXCEPT ![c] = aLog[c] \o f.log]
              /\ aClient' = aClient
    /\ UNCHANGED <<aIn, aCaps, aAnalysis, files, now>>
    /\ RunSettles(c, aPc'[c], aOut'[c])
    /\ UNCHANGED <<apiKey, sessVars>>

\* the peer answers a list request of the run iff it implements it
AListAnswered(k) == k \in peer.supports

\* listTools settles: a failure leaves discoverCapabilities and analyzeServer's
\* try; otherwise listResources is awaited
AToolsDone(c) ==
    /\ Running
    /\ aPc[c] = "tools"
    /\ IF AListAnswered("tools")
       THEN /\ aCaps' = [aCaps EXCEPT ![c].tools = PeerList("tools")]
            /\ aPc' = [aPc EXCEPT ![c] = "resources"]
            /\ aLog' = [aLog EXCEPT ![c] = Append(aLog[c], "listResources")]
            /\ aOut' = aOut
       ELSE LET f == Finally(Throwing(Err("peer", "tools")), aClient[c]) IN
            /\ aPc' = [aPc EXCEPT ![c] = f.pc]
            /\ aOut' = [aOut EXCEPT ![c] = f.out]
            /\ aLog' = [aLog EXCEPT ![c] = aLog[c] \o f.log]
            /\ aCaps' = aCaps
    /\ UNCHANGED <<aIn, aClient, aAnalysis, files, now>>
    /\ RunSettles(c, aPc'[c], aOut'[c])
    /\ UNCHANGED <<apiKey, sessVars>>

\* listResources without its try/catch: a failure ends the run
AResourcesDone_Fatal(c) ==
    /\ Running
    /\ aPc[c] = "resources"
    /\ IF AListAnswered("resources")
       THEN /\ aCaps' = [aCaps EXCEPT ![c].resources = PeerList("resources")]
            /\ aPc' = [aPc EXCEPT ![c] = "prompts"]
            /\ aLog' = [aLog EXCEPT ![c] = Append(aLog[c], "listPrompts")]
            /\ aOut' = aOut
       ELSE LET f == Finally(Throwing(Err("peer", "resources")), aClient[c]) IN
            /\ aPc' = [aPc EXCEPT ![c] = f.pc]
            /\ aOut' = [aOut EXCEPT ![c] = f.out]
            /\ aLog' = [aLog EXCEPT ![c] = aLog[c] \o f.log]
            /\ aCaps' = aCaps
    /\ UNCHANGED <<aIn, aClient, aAnalysis, files, now>>
    /\ RunSettles(c, aPc'[c], aOut'[c])
    /\ UNCHANGED <<apiKey, sessVars>>

\* listResources settles: a failure is caught and gives []; listPrompts is awaited
AResourcesDone(c) ==
    /\ Running
    /\ aPc[c] = "resources"
    /\ aCaps' = [aCaps EXCEPT ![c].resources =
                   IF AListAnswered("resources") THEN PeerList("resources") ELSE <<>>]
    /\ aPc' = [aPc EXCEPT ![c] = "prompts"]
    /\ aLog' = [aLog EXCEPT ![c] = Append(aLog[c], "listPrompts")]
    /\ UNCHANGED <<aIn, aClient, aAnalysis, aOut, files, now>>
    /\ RunSettles(c, aPc'[c], aOut'[c])
    /\ UNCHANGED <<apiKey, sessVars>>

\* listPrompts settles: a failure is caught and gives []; discoverCapabilities
\* returns and analyzeWithLLM awaits generateText
APromptsDone(c) ==
    /\ Running
    /\ aPc[c] = "prompts"
    /\ aCaps' = [aCaps EXCEPT ![c].prompts =
                   IF AListAnswered("prompts") THEN PeerList("prompts") ELSE <<>>]
    /\ aPc' = [aPc EXCEPT ![c] = "analyzing"]
    /\ aLog' = [aLog EXCEPT ![c] = Append(aLog[c], "generateText")]
    /\ UNCHANGED <<aIn, aClient, aAnalysis, aOut, files, now>>
    /\ RunSettles(c, aPc'[c], aOut'[c])
    /\ UNCHANGED <<apiKey, sessVars>>

\* analyzeWithLLM after generateText settled
analyzeWithLLM(ok, text) ==
    IF ~ok THEN [ok |-> FALSE, error |-> AnalysisFailed("planner"), value |-> NoAnalysis]
    ELSE IF ~text.parses
         THEN [ok |-> FALSE, error |-> AnalysisFailed("SyntaxError"), value |-> NoAnalysis]
         ELSE [ok |-> TRUE, error |-> NoError, value |-> text.doc]

\* generateText settles; with a parsed analysis the argument of
\* saveConfiguration is built (reading a field of null throws) and
\* saveConfiguration awaits fs.mkdir
AnalysisDone(c) ==
    /\ Running
    /\ aPc[c] = "analyzing"
    /\ \E ok \in BOOLEAN, text \in AnalysisTexts :
         /\ ~ok => text = [parses |-> FALSE, doc |-> NullAnalysis]
         /\ LET res == analyzeWithLLM(ok, text) IN
            IF res.ok /\ res.value.kind # "null"
            THEN /\ aAnalysis' = [aAnalysis EXCEPT ![c] = res.value]
                 /\ aPc' = [aPc EXCEPT ![c] = "mkdir"]
                 /\ aLog' = [aLog EXCEPT ![c] = Append(aLog[c], "mkdir")]
                 /\ aOut' = aOut
            ELSE LET err == IF res.ok THEN Err("TypeError", "null") ELSE res.error
                     f == Finally(Throwing(err), aClient[c]) IN
                 /\ aAnalysis' = [aAnalysis EXCEPT ![c] = res.value]
                 /\ aPc' = [aPc EXCEPT ![c] = f.pc]
                 /\ aOut' = [aOut EXCEPT ![c] = f.out]
                 /\ aLog' = [aLog EXCEPT ![c] = aLog[c] \o f.log]
    /\ UNCHANGED <<aIn, aClient, aCaps, files, now>>
    /\ RunSettles(c, aPc'[c], aOut'[c])
    /\ UNCHANGED <<apiKey, sessVars>>

\* fs.mkdir settles; on success the file name is computed (toLowerCase of an
\* absent name throws) and fs.writeFile is awaited
AMkdirDone(c) ==
    /\ Running
    /\ aPc[c] = "mkdir"
    /\ \E ok \in BOOLEAN :
         IF ok /\ aAnalysis[c].hasName
         THEN /\ aPc' = [aPc EXCEPT ![c] = "writing"]
              /\ aLog' = [aLog EXCEPT ![c] = Append(aLog[c], "writeFile")]
              /\ aOut' = [aOut EXCEPT ![c] = Returning(ConfigPathOf(aAnalysis[c].expertName, now))]
         ELSE LET err == IF ok THEN Err("TypeError", "toLowerCase") ELSE Err("fs", "mkdir")
                  f == Finally(Throwing(err), aClient[c]) IN
              /\ aPc' = [aPc EXCEPT ![c] = f.pc]
              /\ aOut' = [aOut EXCEPT ![c] = f.out]
              /\ aLog' = [aLog EXCEPT ![c] = aLog[c] \o f.log]
    /\ UNCHANGED <<aIn, aClient, aCaps, aAnalysis, files, now>>
    /\ RunSettles(c, aPc'[c], aOut'[c])
    /\ UNCHANGED <<apiKey, sessVars>>

\* the files after one more writeFile
WriteFile(fs, path, doc) ==
    [p \in (DOMAIN fs) \cup {path} |-> IF p = path THEN doc ELSE fs[p]]

\* fs.writeFile settles; analyzeServer's try block ends either way
AWriteDone(c) ==
    /\ Running
    /\ aPc[c] = "writing"
    /\ \E ok \in BOOLEAN :
         LET out == IF ok THEN aOut[c] ELSE Throwing(Err("fs", "writeFile"))
             f == Finally(out, aClient[c]) IN
         /\ files' = IF ok
                     THEN WriteFile(files, aOut[c].configPath,
                                    JSONStringify(ServerConfigOf(aAnalysis[c], aIn[c], aCaps[c])))
                     ELSE files
         /\ aPc' = [aPc EXCEPT ![c] = f.pc]
         /\ aOut' = [aOut EXCEPT ![c] = f.out]
         /\ aLog' = [aLog EXCEPT ![c] = aLog[c] \o f.log]
    /\ UNCHANGED <<aIn, aClient, aCaps, aAnalysis, now>>
    /\ RunSettles(c, aPc'[c], aOut'[c])
    /\ UNCHANGED <<apiKey, sessVars>>

\* how analyzeServer settles once the close() of its finally block settled:
\* a rejected close() replaces the pending return or throw
Settle(out, closeOk) ==
    IF ~closeOk THEN [Throwing(Err("close", "none")) EXCEPT !.state = "threw"]
    ELSE [out EXCEPT !.state = IF out.state = "returning" THEN "returned" ELSE "threw"]

\* client.close() settles
ACloseDone(c) ==
    /\ Running
    /\ aPc[c] = "closing"
    /\ \E ok \in BOOLEAN :
         /\ aClient' = [aClient EXCEPT ![c] = IF ok THEN "closed" ELSE aClient[c]]
         /\ aOut' = [aOut EXCEPT ![c] = Settle(aOut[c], ok)]
    /\ aPc' = [aPc EXCEPT ![c] = "settled"]
    /\ UNCHANGED <<aIn, aCaps, aAnalysis, aLog, files, now>>
    /\ RunSettles(c, aPc'[c], aOut'[c])
    /\ UNCHANGED <<apiKey, sessVars>>

\* MCPInstaller.run({server: 'node'}): analyzeAndWrap calls
\* analyzeServer(options.server) with no arguments
InstallerInput == [serverPath |-> "node", args |-> <<>>]

\* run is called: ensureConfigDir awaits fs.mkdir
InstallerRun ==
    /\ Running /\ iPc = "idle"
    /\ iPc' = "mkdir"
    /\ UNCHANGED <<aPc, aIn, aClient, aCaps, aAnalysis, aOut, aLog, files, now>>
    /\ UNCHANGED serveVars

\* directSetup: analyzeAndWrap calls analyzeServer at once, in an environment
\* that has the credential, and awaits it; a run called directly may be in
\* flight
DirectSetup ==
    /\ AnalyzeServerCall("installer", InstallerInput, TRUE)
    /\ iPc' = "analyzing"

\* the fs.mkdir of ensureConfigDir settles, a failure being caught; checkApiKey
\* awaits the `hasKey` prompt when the environment lacks the credential and
\* returns otherwise, and run goes on to directSetup
IMkdirDone ==
    /\ Running /\ iPc = "mkdir"
    /\ IF ~apiKey
       THEN /\ iPc' = "hasKey"
            /\ UNCHANGED <<aPc, aIn, aClient, aCaps, aAnalysis, aOut, aLog>>
       ELSE DirectSetup
    /\ UNCHANGED <<files, now>>
    /\ UNCHANGED serveVars

\* the `hasKey` prompt settles: without a key checkApiKey calls
\* process.exit(0), with one it awaits the `apiKey` prompt; a rejected prompt
\* reaches the catch of run, which calls process.exit(1)
IHasKeyDone ==
    /\ Running /\ iPc = "hasKey"
    /\ \E ok \in BOOLEAN, hasKey \in BOOLEAN :
         IF ok /\ hasKey
         THEN iPc' = "apiKey" /\ proc' = proc
         ELSE iPc' = iPc /\ proc' = "exited"
    /\ UNCHANGED <<aPc, aIn, aClient, aCaps, aAnalysis, aOut, aLog, files, now>>
    /\ UNCHANGED <<apiKey, sessVars>>

\* the `apiKey` prompt settles: the typed key, which is not empty, becomes
\* process.env.OPENAI_API_KEY and run goes on to directSetup; a rejected
\* prompt reaches the catch of run
IApiKeyDone ==
    /\ Running /\ iPc = "apiKey"
    /\ \E ok \in BOOLEAN :
         IF ok
         THEN /\ apiKey' = TRUE
              /\ DirectSetup
              /\ proc' = proc
         ELSE /\ proc' = "exited"
              /\ UNCHANGED <<apiKey, iPc, aPc, aIn, aClient, aCaps, aAnalysis, aOut, aLog>>
    /\ UNCHANGED <<files, now>>
    /\ UNCHANGED sessVars

\* the `configure` prompt of analyzeAndWrap settles: configureAgent awaits
\* the `agent` prompt, or run returns; a rejected prompt reaches the catch of
\* run
IConfigureDone ==
    /\ Running /\ iPc = "configure"
    /\ \E ok \in BOOLEAN, configure \in BOOLEAN :
         IF ok
         THEN iPc' = (IF configure THEN "agent" ELSE "done") /\ proc' = proc
         ELSE iPc' = iPc /\ proc' = "exited"
    /\ UNCHANGED <<aPc, aIn, aClient, aCaps, aAnalysis, aOut, aLog, files, now>>
    /\ UNCHANGED <<apiKey, sessVars>>

\* the choices of the `agent` prompt and the first await of the function
\* configureAgent calls for each; showCustomConfig awaits nothing
Agents == {"claude-desktop", "claude-code", "vscode", "custom"}
FirstAwait(agent) ==
    CASE agent = "claude-desktop" -> "desktopRead"
      [] agent = "claude-code"    -> "codeMkdir"
      [] agent = "vscode"         -> "vscodeMkdir"
      [] agent = "custom"         -> "done"

\* the `agent` prompt of configureAgent settles: the function of the chosen
\* agent runs up to its first await; a rejected prompt reaches the catch of run
IAgentDone ==
    /\ Running /\ iPc = "agent"
    /\ \E ok \in BOOLEAN, agent \in Agents :
         IF ok
         THEN iPc' = FirstAwait(agent) /\ proc' = proc
         ELSE iPc' = iPc /\ proc' = "exited"
    /\ UNCHANGED <<aPc, aIn, aClient, aCaps, aAnalysis, aOut, aLog, files, now>>
    /\ UNCHANGED <<apiKey, sessVars>>

\* an await of configureAgent has settled: fulfilled, the installer goes on to
\* its next await; rejected, the rejection reaches the catch of run, which
\* calls process.exit(1)
InstallerGoes(fulfilled, next) ==
    IF fulfilled
    THEN iPc' = next /\ proc' = proc
    ELSE iPc' = iPc /\ proc' = "exited"

\* JSON.parse of the descriptor at the path the installer's run returned and
\* wrapperConfig.name.toLowerCase() do not throw: the text is the one that
\* run or a later run wrote there, and its name is a string
WrapperNamed ==
    LET path == aOut["installer"].configPath IN
    path \in DOMAIN files /\ files[path].parses /\ files[path].doc.nameOk

\* configureClaudeDesktop: the read of the existing Claude configuration
\* settles, a failure being caught; the wrapper's descriptor is read
IClaudeDesktopReadDone ==
    /\ Running /\ iPc = "desktopRead"
    /\ iPc' = "desktopWrapper"
    /\ UNCHANGED <<aPc, aIn, aClient, aCaps, aAnalysis, aOut, aLog, files, now>>
    /\ UNCHANGED serveVars

\* configureClaudeDesktop: the read of the descriptor settles and the entry of
\* the wrapper is set on the Claude configuration read before, which throws
\* when that configuration is null; fs.mkdir is awaited
IClaudeDesktopWrapperDone ==
    /\ Running /\ iPc = "desktopWrapper"
    /\ \E ok \in BOOLEAN, settable \in BOOLEAN :
         InstallerGoes(ok /\ WrapperNamed /\ settable, "desktopMkdir")
    /\ UNCHANGED <<aPc, aIn, aClient, aCaps, aAnalysis, aOut, aLog, files, now>>
    /\ UNCHANGED <<apiKey, sessVars>>

\* configureClaudeDesktop: fs.mkdir settles; fs.writeFile is awaited.  The
\* file written is the agent's, not a descriptor.
IClaudeDesktopMkdirDone ==
    /\ Running /\ iPc = "desktopMkdir"
    /\ \E ok \in BOOLEAN : InstallerGoes(ok, "desktopWrite")
    /\ UNCHANGED <<aPc, aIn, aClient, aCaps, aAnalysis, aOut, aLog, files, now>>
    /\ UNCHANGED <<apiKey, sessVars>>

\* configureClaudeDesktop: fs.writeFile settles; configureAgent,
\* analyzeAndWrap and run return
IClaudeDesktopWriteDone ==
    /\ Running /\ iPc = "desktopWrite"
    /\ \E ok \in BOOLEAN : InstallerGoes(ok, "done")
    /\ UNCHANGED <<aPc, aIn, aClient, aCaps, aAnalysis, aOut, aLog, files, now>>
    /\ UNCHANGED <<apiKey, sessVars>>

\* configureClaudeCode: fs.mkdir settles; the wrapper's descriptor is read
IClaudeCodeMkdirDone ==
    /\ Running /\ iPc = "codeMkdir"
    /\ \E ok \in BOOLEAN : InstallerGoes(ok, "codeWrapper")
    /\ UNCHANGED <<aPc, aIn, aClient, aCaps, aAnalysis, aOut, aLog, files, now>>
    /\ UNCHANGED <<apiKey, sessVars>>

\* configureClaudeCode: the read of the descriptor settles; fs.writeFile is
\* awaited
IClaudeCodeWrapperDone ==
    /\ Running /\ iPc = "codeWrapper"
    /\ \E ok \in BOOLEAN : InstallerGoes(ok /\ WrapperNamed, "codeWrite")
    /\ UNCHANGED <<aPc, aIn, aClient, aCaps, aAnalysis, aOut, aLog, files, now>>
    /\ UNCHANGED <<apiKey, sessVars>>

\* configureClaudeCode: fs.writeFile settles; configureAgent, analyzeAndWrap
\* and run return
IClaudeCodeWriteDone ==
    /\ Running /\ iPc = "codeWrite"
    /\ \E ok \in BOOLEAN : InstallerGoes(ok, "done")
    /\ UNCHANGED <<aPc, aIn, aClient, aCaps, aAnalysis, aOut, aLog, files, now>>
    /\ UNCHANGED <<apiKey, sessVars>>

\* configureVSCode: fs.mkdir settles; the wrapper's descriptor is read
IVSCodeMkdirDone ==
    /\ Running /\ iPc = "vscodeMkdir"
    /\ \E ok \in BOOLEAN : InstallerGoes(ok, "vscodeWrapper")
    /\ UNCHANGED <<aPc, aIn, aClient, aCaps, aAnalysis, aOut, aLog, files, now>>
    /\ UNCHANGED <<apiKey, sessVars>>

\* configureVSCode: the read of the descriptor settles; fs.writeFile is
\* awaited
IVSCodeWrapperDone ==
    /\ Running /\ iPc = "vscodeWrapper"
    /\ \E ok \in BOOLEAN : InstallerGoes(ok /\ WrapperNamed, "vscodeWrite")
    /\ UNCHANGED <<aPc, aIn, aClient, aCaps, aAnalysis, aOut, aLog, files, now>>
    /\ UNCHANGED <<apiKey, sessVars>>

\* configureVSCode: fs.writeFile settles; configureAgent, analyzeAndWrap and
\* run return
IVSCodeWriteDone ==
    /\ Running /\ iPc = "vscodeWrite"
    /\ \E ok \in BOOLEAN : InstallerGoes(ok, "done")
    /\ UNCHANGED <<aPc, aIn, aClient, aCaps, aAnalysis, aOut, aLog, files, now>>
    /\ UNCHANGED <<apiKey, sessVars>>

\* the steps of configureAgent
ConfigureAgent ==
    \/ IAgentDone
    \/ IClaudeDesktopReadDone
    \/ IClaudeDesktopWrapperDone
    \/ IClaudeDesktopMkdirDone
    \/ IClaudeDesktopWriteDone
    \/ IClaudeCodeMkdirDone
    \/ IClaudeCodeWrapperDone
    \/ IClaudeCodeWriteDone
    \/ IVSCodeMkdirDone
    \/ IVSCodeWrapperDone
    \/ IVSCodeWriteDone

\* time passes
Tick ==
    /\ now < MaxClock
    /\ now' = now + 1
    /\ UNCHANGED <<aPc, aIn, aClient, aCaps, aAnalysis, aOut, aLog, files, iPc>>
    /\ UNCHANGED serveVars

InitDiscIdle ==
    /\ aPc = [c \in Runs |-> "idle"]
    /\ aIn = [c \in Runs |-> [serverPath |-> "none", args |-> <<>>, run |-> 0]]
    /\ aClient = [c \in Runs |-> "null"]
    /\ aCaps = [c \in Runs |-> NoCaps]
    /\ aAnalysis = [c \in Runs |-> NoAnalysis]
    /\ aOut = [c \in Runs |-> NoOutcome]
    /\ aLog = [c \in Runs |-> <<>>]
    /\ files = <<>>
    /\ now = 0
    /\ iPc = "idle"

----------------------------------------------------------------------------

Init == InitServe /\ InitDiscIdle

Next ==
    \/ StartWrapperServer
    \/ LoadConfigDone
    \/ ConnectDone
    \/ ServerConnectDone
    \/ ListToolsRequest
    \/ \E s \in Slots : CallToolRequest(s)
    \/ \E s \in Slots : ListDone(s)
    \/ \E s \in Slots : PlannerDone(s)
    \/ \E s \in Slots : CallDone(s)
    \/ \E s \in Slots : Respond(s)
    \/ SigintDefault
    \/ Sigint
    \/ PeerCloseDone
    \/ ServerCloseDone

\* the serve session
Spec == Init /\ [][Next]_vars

InitDiscovery ==
    /\ apiKey \in BOOLEAN
    /\ peer \in Peers
    /\ ServeIdle
    /\ InitDiscIdle

NextDiscovery ==
    \/ SigintDefault
    \/ InstallerRun
    \/ IMkdirDone
    \/ IHasKeyDone
    \/ IApiKeyDone
    \/ IConfigureDone
    \/ ConfigureAgent
    \/ AnalyzeServer
    \/ \E c \in Runs : AConnectDone(c)
    \/ \E c \in Runs : AToolsDone(c)
    \/ \E c \in Runs : AResourcesDone(c)
    \/ \E c \in Runs : APromptsDone(c)
    \/ \E c \in Runs : AnalysisDone(c)
    \/ \E c \in Runs : AMkdirDone(c)
    \/ \E c \in Runs : AWriteDone(c)
    \/ \E c \in Runs : ACloseDone(c)
    \/ Tick

\* discovery runs
SpecDiscovery == InitDiscovery /\ [][NextDiscovery]_vars

\* the startup of serve sessions over every descriptor file considered
InitLoad ==
    /\ apiKey \in BOOLEAN
    /\ configFile \in ConfigFiles
    /\ peer = [supports |-> ListKinds]
    /\ sPc = "Unstarted"
    /\ sError = NoError
    /\ config = NoConfig
    /\ wrappedConn = "none"
    /\ serverConn = "none"
    /\ expertTool = NoTool
    /\ advertised = NoList
    /\ q = [s \in Slots |-> IdleQ]
    /\ sig = NoSig
    /\ proc = "running"
    /\ shut = NoShut
    /\ InitDiscIdle

NextLoad ==
    \/ StartWrapperServer
    \/ LoadConfigDone
    \/ ConnectDone
    \/ ServerConnectDone
    \/ SigintDefault

SpecLoad == InitLoad /\ [][NextLoad]_vars

\* longest descriptor name
MaxNameLen == 3

\* the characters of descriptor names: an upper-case letter, a lower-case
\* letter, two kinds of whitespace and the separator itself
NameChars == {"E", "x", " ", "\t", "-"}
Names == UNION {[1..n -> NameChars] : n \in 0..MaxNameLen}

\* the startup of serve sessions over every descriptor name considered
InitNames ==
    /\ apiKey = TRUE
    /\ configFile \in {FileOf(GoodDoc(n)) : n \in Names}
    /\ peer = [supports |-> ListKinds]
    /\ sPc = "Unstarted"
    /\ sError = NoError
    /\ config = NoConfig
    /\ wrappedConn = "none"
    /\ serverConn = "none"
    /\ expertTool = NoTool
    /\ advertised = NoList
    /\ q = [s \in Slots |-> IdleQ]
    /\ sig = NoSig
    /\ proc = "running"
    /\ shut = NoShut
    /\ InitDiscIdle

NextNames ==
    \/ StartWrapperServer
    \/ LoadConfigDone
    \/ ConnectDone
    \/ ServerConnectDone
    \/ SigintDefault
    \/ ListToolsRequest

SpecNames == InitNames /\ [][NextNames]_vars

\* the installer, analyzeServer and the startup of startWrapperServer called in
\* one process, which has one process.env
InitCommands ==
    /\ apiKey \in BOOLEAN
    /\ configFile = FileOf(GoodDoc(NameA))
    /\ peer = [supports |-> ListKinds]
    /\ sPc = "Unstarted"
    /\ sError = NoError
    /\ config = NoConfig
    /\ wrappedConn = "none"
    /\ serverConn = "none"
    /\ expertTool = NoTool
    /\ advertised = NoList
    /\ q = [s \in Slots |-> IdleQ]
    /\ sig = NoSig
    /\ proc = "running"
    /\ shut = NoShut
    /\ InitDiscIdle

NextCommands ==
    \/ StartWrapperServer
    \/ LoadConfigDone
    \/ ConnectDone
    \/ ServerConnectDone
    \/ SigintDefault
    \/ InstallerRun
    \/ IMkdirDone
    \/ IHasKeyDone
    \/ IApiKeyDone
    \/ IConfigureDone
    \/ ConfigureAgent
    \/ AnalyzeServer
    \/ \E c \in Runs : AConnectDone(c)
    \/ \E c \in Runs : AToolsDone(c)
    \/ \E c \in Runs : AResourcesDone(c)
    \/ \E c \in Runs : APromptsDone(c)
    \/ \E c \in Runs : AnalysisDone(c)
    \/ \E c \in Runs : AMkdirDone(c)
    \/ \E c \in Runs : AWriteDone(c)
    \/ \E c \in Runs : ACloseDone(c)
    \/ Tick

SpecCommands == InitCommands /\ [][NextCommands]_vars

----------------------------------------------------------------------------
(* Two queries given the same answers: q1 names no mode, q2 names execute *)

\* a session that is serving the descriptor of a valid file
InitServing ==
    /\ apiKey = TRUE
    /\ configFile = FileOf(GoodDoc(NameA))
    /\ peer \in ServePeers
    /\ sPc = "Serving"
    /\ sError = NoError
    /\ config = loadConfig(configFile).config
    /\ wrappedConn = "open"
    /\ serverConn = "open"
    /\ expertTool = createExpertTool(config)
    /\ advertised = NoList
    /\ q = [s \in Slots |-> IdleQ]
    /\ sig = NoSig
    /\ proc = "running"
    /\ shut = NoShut
    /\ InitDiscIdle

\* the same tools/call request arrives twice, without mode and with mode execute
PairRequest ==
    /\ Serving /\ \A s \in Slots : q[s].pc = "idle"
    /\ \E name \in RequestNames, query \in BOOLEAN :
         q' = [q EXCEPT
                 !["q1"] = CallToolHandler(name, [query |-> query, mode |-> "undefined"]),
                 !["q2"] = CallToolHandler(name, [query |-> query, mode |-> "execute"])]
    /\ UNCHANGED <<apiKey, configFile, peer, sPc, sError, config, wrappedConn,
                   serverConn, expertTool, advertised, sig, proc, shut>>
    /\ UNCHANGED discVars

\* the peer gives both queries the same answer to a list request
PairListDone ==
    /\ Running
    /\ \E k \in q["q1"].pending \cap q["q2"].pending :
         q' = [s \in Slots |-> ListSettled(q[s], k, ListAnswered(k))]
    /\ UNCHANGED <<apiKey, configFile, peer, sPc, sError, config, wrappedConn,
                   serverConn, expertTool, advertised, sig, proc, shut>>
    /\ UNCHANGED discVars

\* the planner gives both queries the same answer
PairPlannerDone ==
    /\ Running /\ \A s \in Slots : q[s].pc = "planning"
    /\ \/ q' = [s \in Slots |->
                   Fail([q[s] EXCEPT !.text = "rejected"], Coordinate("planner"))]
       \/ \E t \in PlannerTexts :
            q' = [s \in Slots |->
                   PlanReceived([q[s] EXCEPT !.text = IF t.parses THEN "parsed"
                                                      ELSE "unparsable"], t)]
    /\ UNCHANGED <<apiKey, configFile, peer, sPc, sError, config, wrappedConn,
                   serverConn, expertTool, advertised, sig, proc, shut>>
    /\ UNCHANGED discVars

\* the peer gives both queries the same answer to a callTool
PairCallDone ==
    /\ Running /\ \A s \in Slots : q[s].pc = "calling"
    /\ \E ok \in BOOLEAN :
         q' = [s \in Slots |->
                CallSettled([q[s] EXCEPT !.outcomes = Append(@, ok)], ok)]
    /\ UNCHANGED <<apiKey, configFile, peer, sPc, sError, config, wrappedConn,
                   serverConn, expertTool, advertised, sig, proc, shut>>
    /\ UNCHANGED discVars

\* both results or errors have been sent
PairRespond ==
    /\ Running
    /\ \A s \in Slots : q[s].pc \in {"done", "failed"} /\ q[s].pending = {}
    /\ q' = [s \in Slots |-> IdleQ]
    /\ UNCHANGED <<apiKey, configFile, peer, sPc, sError, config, wrappedConn,
                   serverConn, expertTool, advertised, sig, proc, shut>>
    /\ UNCHANGED discVars

NextPair ==
    \/ PairRequest
    \/ PairListDone
    \/ PairPlannerDone
    \/ PairCallDone
    \/ PairRespond

SpecPair == InitServing /\ [][NextPair]_vars

----------------------------------------------------------------------------
(* Claims about execute mode *)

\* every element of the plan's toolCalls is a call object
AllCalls(items) == \A i \in 1..Len(items) : items[i].kind = "call"

\* the tool names of the first n plan entries
PlanNames(items, n) == [i \in 1..n |-> items[i].name]

\* C1: in execute mode, for a parsed plan of n calls and any pattern of
\* failures at the peer, the query never fails, every call is attempted, and
\* the response has n results, result i carrying the tool name of plan entry i
\* and an error exactly when call i failed.
C1_EveryCallAttempted ==
    \A s \in Slots :
        (q[s].planned /\ AllCalls(q[s].items)) =>
            /\ q[s].pc \in {"calling", "done"}
            /\ q[s].pc = "done" =>
                 /\ q[s].resp.kind = "execute"
                 /\ q[s].invoked = PlanNames(q[s].items, Len(q[s].items))
                 /\ Len(q[s].resp.results) = Len(q[s].items)
                 /\ Len(q[s].outcomes) = Len(q[s].items)
                 /\ \A i \in 1..Len(q[s].items) :
                      /\ q[s].resp.results[i].tool = q[s].items[i].name
                      /\ q[s].resp.results[i].kind =
                           IF q[s].outcomes[i] THEN "result" ELSE "error"

\* a two-call plan whose first call failed and whose second succeeded
C1_Witness ==
    \E s \in Slots :
        /\ q[s].pc = "done" /\ q[s].planned
        /\ Len(q[s].items) = 2
        /\ q[s].items[1].name # q[s].items[2].name
        /\ q[s].outcomes = <<FALSE, TRUE>>
        /\ q[s].resp.results[1].kind = "error"
        /\ q[s].resp.results[2].kind = "result"

\* C2: the planned calls of one query are issued in plan order, one at a time:
\* the call for entry i+1 is issued only when the call for entry i has settled,
\* and the response is returned only when the last call has settled.
C2_SequentialCalls ==
    \A s \in Slots :
        /\ q[s].outstanding \in {0, 1}
        /\ Len(q[s].invoked) <= Len(q[s].items)
        /\ q[s].invoked = PlanNames(q[s].items, Len(q[s].invoked))
        /\ Len(q[s].outcomes) + q[s].outstanding = Len(q[s].invoked)
        /\ q[s].pc = "calling" <=> q[s].outstanding = 1
        /\ q[s].pc = "done" /\ q[s].resp.kind = "execute" =>
             /\ q[s].outstanding = 0
             /\ Len(q[s].invoked) = Len(q[s].items)

\* the second call of a plan is outstanding, the first has settled
C2_Witness ==
    \E s \in Slots :
        /\ q[s].pc = "calling" /\ Len(q[s].items) = 2
        /\ Len(q[s].invoked) = 2 /\ Len(q[s].outcomes) = 1

\* C3: in execute mode a planner text that does not parse makes the query fail
\* with the failed-to-coordinate error, and no tool is invoked for that query.
C3_UnparsablePlanFails ==
    \A s \in Slots :
        q[s].text = "unparsable" =>
            /\ q[s].pc = "failed"
            /\ q[s].error.type = "Failed to coordinate with wrapped server"
            /\ q[s].invoked = <<>>
            /\ q[s].resp = NoResp

C3_Witness ==
    \E s \in Slots :
        /\ q[s].text = "unparsable" /\ q[s].pc = "failed"
        /\ q[s].mode = "execute" /\ q[s].planner = 1

----------------------------------------------------------------------------
(* Claims about the entry point *)

\* the CallTool handler made no request to the peer or the planner
NoRequests(rec) ==
    /\ rec.listReqs = 0 /\ rec.pending = {}
    /\ rec.planner = 0
    /\ rec.invoked = <<>> /\ rec.outstanding = 0

\* C7: a call whose mode is outside discover, execute, explain is rejected as a
\* caller error before any peer or planner request; it is never run as execute.
C7_UnknownModeRejected ==
    \A s \in Slots :
        (q[s].pc # "idle" /\ q[s].mode \notin {"undefined", "discover", "execute", "explain"}) =>
            /\ q[s].pc = "failed"
            /\ q[s].error.type \in {"ZodError", "Unknown tool"}
            /\ NoRequests(q[s])

\* a request to the expert tool with mode "summarize" was rejected
C7_Witness ==
    \E s \in Slots :
        /\ q[s].name = expertTool.name /\ q[s].mode = "summarize"
        /\ q[s].pc = "failed" /\ q[s].error = ZodError("mode")

\* C8: a serving session advertises exactly one tool, always under the same
\* name, and a call naming another tool is rejected as unknown without any
\* request to the peer or the planner.
C8_OneEntryPoint ==
    /\ [](advertised # NoList =>
            /\ Len(advertised) = 1
            /\ advertised[1].name = ToolNameOf(config.name))
    /\ [][(advertised # NoList /\ advertised' # NoList) =>
            advertised'[1].name = advertised[1].name]_vars
    /\ [](\A s \in Slots :
            (q[s].pc # "idle" /\ q[s].name # ToolNameOf(config.name)) =>
                /\ q[s].pc = "failed"
                /\ q[s].error = UnknownTool
                /\ NoRequests(q[s]))

\* the tool has been listed and a call naming the descriptor's name, not the
\* tool's, was rejected
C8_Witness ==
    /\ advertised # NoList
    /\ \E s \in Slots :
         /\ q[s].name = config.name /\ q[s].name # advertised[1].name
         /\ q[s].pc = "failed" /\ q[s].error = UnknownTool

----------------------------------------------------------------------------
(* Claims about shutdown *)

\* C9: a session ended by SIGINT has closed the peer connection first, then
\* the serving transport, and only then stopped: the transport's close does
\* not start before a close of the peer has finished, a process that exits
\* has finished both closes, and a process that the signal stops leaves no
\* connection open.
C9_ShutdownOrder ==
    /\ shut.serverCloseCalls > 0 =>
         /\ shut.peerCloseDone > 0
         /\ wrappedConn = "closed"
    /\ proc = "exited" =>
         /\ shut.peerCloseDone > 0 /\ wrappedConn = "closed"
         /\ shut.serverCloseDone > 0 /\ serverConn = "closed"
    /\ proc = "killed" => wrappedConn # "open" /\ serverConn # "open"
    /\ shut.serverCloseDone <= shut.serverCloseCalls
    /\ shut.peerCloseDone <= shut.peerCloseCalls

\* C10: during shutdown both closes are attempted even if one of them fails,
\* and the session still stops.
C10_BothClosesAttempted ==
    (sig.rejected > 0 \/ proc = "exited") =>
        /\ shut.peerCloseCalls > 0
        /\ shut.serverCloseCalls > 0
        /\ proc = "exited"

----------------------------------------------------------------------------
(* Claims about discovery *)

\* the number of times the run made request r
Count(log, r) == Cardinality({i \in 1..Len(log) : log[i] = r})

\* the run got its connection
Connected(log) == Count(log, "listTools") > 0

\* C4: in every run of analyzeServer that opened the peer connection, the
\* connection is closed exactly once before analyzeServer returns or throws,
\* on every path: close() is called once, as the last request of the run, and
\* the connection is closed when the run has settled.
C4_ClosedExactlyOnce ==
    \A c \in Runs :
      /\ Count(aLog[c], "close") <= 1
      /\ (aPc[c] \in {"idle", "settled"} /\ Connected(aLog[c])) =>
           /\ Count(aLog[c], "close") = 1
           /\ aLog[c][Len(aLog[c])] = "close"
           /\ aClient[c] = "closed"
      /\ (aPc[c] \notin {"idle", "settled", "closing"}) => Count(aLog[c], "close") = 0

\* what discovery records for kind k of the peer
Recorded(k) == IF k \in peer.supports THEN PeerList(k) ELSE <<>>

\* C5: when the tool list succeeds, a failure of the resource list or of the
\* prompt list does not end discovery: the failing kind is recorded as empty,
\* the others as the peer returned them, and the planner is called.
C5_PartialPeers ==
    \A c \in Runs :
      ("tools" \in peer.supports /\ Connected(aLog[c])
         /\ aPc[c] \notin {"tools", "resources", "prompts"}) =>
          /\ Count(aLog[c], "generateText") = 1
          /\ aCaps[c].tools = PeerList("tools")
          /\ aCaps[c].resources = Recorded("resources")
          /\ aCaps[c].prompts = Recorded("prompts")

\* the planner is being called, in the run the installer awaits and in a run
\* called directly, for a peer with tools and prompts and no resources
C5_Witness ==
    /\ peer.supports = {"tools", "prompts"}
    /\ \A c \in Runs :
         /\ aPc[c] = "analyzing"
         /\ aCaps[c].resources = <<>> /\ aCaps[c].prompts = PeerList("prompts")

\* C6: if the tool list fails, analyzeServer fails with that error, and the
\* run calls no planner and writes no descriptor.
C6_ToolListFailure ==
    \A c \in Runs :
      ("tools" \notin peer.supports /\ Connected(aLog[c]) /\ aPc[c] = "settled") =>
          /\ aOut[c].state = "threw"
          /\ aOut[c].error = Err("peer", "tools")
          /\ Count(aLog[c], "generateText") = 0
          /\ Count(aLog[c], "writeFile") = 0

----------------------------------------------------------------------------
(* Startup of the serve session *)

\* the session has got past the step named
Past(step) ==
    CASE step = "credential" -> sPc \in {"Loading", "Connecting", "Starting", "Serving"}
      [] step = "load"       -> sPc \in {"Connecting", "Starting", "Serving"}
      [] OTHER               -> sPc \in {"Starting", "Serving"}

\* something was answered on the serving transport
Served ==
    \/ serverConn # "none"
    \/ advertised # NoList
    \/ \E s \in Slots : q[s] # IdleQ

\* C11: the session is past the credential check only with a credential, past
\* the load only with the descriptor of a file that loadConfig accepts, past
\* the connect only with a peer connection, and it serves only in Serving;
\* a session whose load or connect failed is rejected with the load error or
\* the failed-to-connect error and has served nothing.
C11_ServingAfterStartup ==
    /\ Past("credential") => apiKey
    /\ Past("load") => /\ apiKey
                       /\ loadConfig(configFile).ok
                       /\ config = loadConfig(configFile).config
    /\ Past("connect") => Past("load") /\ wrappedConn # "none"
    /\ sPc \in {"Unstarted", "Loading"} => config = NoConfig
    /\ sPc \in {"Unstarted", "Loading", "Connecting"} =>
          wrappedConn = "none" /\ expertTool = NoTool
    /\ config # NoConfig => apiKey /\ config = loadConfig(configFile).config
    /\ wrappedConn # "none" => config # NoConfig
    /\ Served => sPc = "Serving"
    /\ sPc = "Rejected" =>
          /\ ~Served
          /\ sError # NoError
          /\ (sError # MissingKey /\ ~loadConfig(configFile).ok) =>
                sError = loadConfig(configFile).error
          /\ sError = ConnectFailed <=> (config # NoConfig /\ wrappedConn = "none")

C11_Witness == sPc = "Serving" /\ \E s \in Slots : q[s].pc = "done"
----------------------------------------------------------------------------
(* loadConfig *)

\* the document has every field of the descriptor schema with its type
SchemaHolds(d) ==
    /\ d.nameOk /\ d.descriptionOk /\ d.systemPromptOk /\ d.connOk
    /\ d.capabilitiesOk /\ d.metadataOk

\* loadConfig(configFile) has settled: startWrapperServer got past
\* validateEnvironment and is no longer awaiting loadConfig
LoadSettled ==
    /\ sPc \notin {"Unstarted", "Loading"}
    /\ ~(sPc = "Rejected" /\ sError = MissingKey)

\* loadConfig(configFile) has returned a descriptor
Loaded == LoadSettled /\ config # NoConfig

\* the three failures of loadConfig, each with the wrapped message
LoadFailures ==
    /\ ~configFile.exists =>
          sPc = "Rejected" /\ sError = LoadFailed("ENOENT") /\ config = NoConfig
    /\ configFile.exists /\ ~configFile.parses =>
          sPc = "Rejected" /\ sError = LoadFailed("SyntaxError") /\ config = NoConfig
    /\ configFile.parses /\ ~SchemaHolds(configFile.doc) =>
          sPc = "Rejected" /\ sError = LoadFailed("ZodError") /\ config = NoConfig
    /\ Loaded => configFile.parses /\ SchemaHolds(configFile.doc)
    /\ configFile.parses /\ SchemaHolds(configFile.doc) => Loaded

\* C12 as stated: loadConfig fails with the wrapped message in the three
\* cases, and the descriptor it returns otherwise equals the stored document.
C12_LoadConfig ==
    LoadSettled =>
      /\ LoadFailures
      /\ Loaded => config.doc = configFile.doc

\* C12, amended: loadConfig fails with the wrapped message in the three
\* cases, and the descriptor it returns otherwise equals the stored document
\* without the keys that the schema does not name.
C12_LoadConfigStripped ==
    LoadSettled =>
      /\ LoadFailures
      /\ Loaded => /\ config.doc = [configFile.doc EXCEPT !.extra = FALSE]
                   /\ config.name = configFile.doc.name

C12_Witness == Loaded /\ configFile.doc.extra

\* the counts of the document equal the lengths of its capability lists
CountsMatch(d) ==
    /\ d.metadata.toolCount = Len(d.capabilities.tools)
    /\ d.metadata.resourceCount = Len(d.capabilities.resources)
    /\ d.metadata.promptCount = Len(d.capabilities.prompts)

\* C13: loadConfig rejects a document whose counts differ from the lengths of
\* its capability lists, so the descriptor of a session has matching counts.
C13_CountsChecked ==
    /\ (LoadSettled /\ configFile.parses /\ ~CountsMatch(configFile.doc)) =>
          sPc = "Rejected" /\ sError = LoadFailed("ZodError")
    /\ config # NoConfig => CountsMatch(config.doc)
----------------------------------------------------------------------------
(* Descriptors written by discovery *)

\* run c of analyzeServer has returned the path of the descriptor it wrote
RunSucceeded(c) == aPc[c] = "settled" /\ aOut[c].state = "returned"

\* what loadConfig makes of the descriptor file of run c
Reloaded(c) == loadConfig(files[aOut[c].configPath])

\* C14: the descriptor file of a successful discovery run is accepted by
\* loadConfig, with counts equal to the lengths of its capability lists and
\* with the capabilities enumerated and the path and args given to the run.
C14_RoundTrip ==
    \A c \in Runs :
      RunSucceeded(c) =>
        /\ Reloaded(c).ok
        /\ CountsMatch(Reloaded(c).config.doc)
        /\ Reloaded(c).config.doc.capabilities = aCaps[c]
        /\ Reloaded(c).config.doc.serverPath = aIn[c].serverPath
        /\ Reloaded(c).config.doc.args = aIn[c].args
----------------------------------------------------------------------------
(* The credential check *)

\* C15: without the credential startWrapperServer and analyzeServer reject
\* with the missing-credential error and have done nothing else: no connect,
\* no list request, no planner call, no descriptor read or written.
C15_CredentialFirst ==
    ~apiKey =>
      /\ sPc \in {"Unstarted", "Rejected"}
      /\ sPc = "Rejected" => sError = MissingKey
      /\ config = NoConfig /\ wrappedConn = "none" /\ serverConn = "none"
      /\ \A c \in Runs :
           /\ aPc[c] \in {"idle", "settled"}
           /\ aPc[c] = "settled" =>
                 aOut[c].state = "threw" /\ aOut[c].error = MissingKey
           /\ aLog[c] = <<>> /\ aClient[c] = "null"
           /\ aCaps[c] = NoCaps /\ aAnalysis[c] = NoAnalysis
      /\ files = <<>>

\* both commands were tried without the credential, the installer waiting at
\* its prompt for it
C15_Witness ==
    ~apiKey /\ sPc = "Rejected" /\ aPc["direct"] = "settled" /\ iPc = "hasKey"
----------------------------------------------------------------------------
(* The planner's answer during discovery *)

\* generateText rejected, or its text was not JSON
PlannerFailed(c) ==
    /\ Count(aLog[c], "generateText") > 0
    /\ aPc[c] \in {"closing", "settled"}
    /\ aAnalysis[c] = NoAnalysis

\* C16: when the planner call fails or its text does not parse, analyzeServer
\* rejects with the analysis-failed error, after close() was called on the
\* peer connection and without a descriptor file written.
C16_AnalysisFailure ==
    \A c \in Runs :
      (PlannerFailed(c) /\ aPc[c] = "settled") =>
        /\ aOut[c].state = "threw"
        /\ \E cause \in {"planner", "SyntaxError"} :
              aOut[c].error = AnalysisFailed(cause)
        /\ Count(aLog[c], "close") = 1
        /\ Count(aLog[c], "writeFile") = 0

\* the analysis lacks the name, the description or the prompt as a string
BadShape(c) ==
    /\ aAnalysis[c].kind \in {"null", "object"}
    /\ ~(aAnalysis[c].hasName /\ aAnalysis[c].hasDescription /\ aAnalysis[c].hasPrompt)

\* C18: a planner answer that parses but lacks the name, the description or
\* the prompt makes analyzeServer reject with the analysis-failed error, and
\* no descriptor file is written from it.
C18_ShapeChecked ==
    \A c \in Runs :
      (BadShape(c) /\ aPc[c] = "settled") =>
        /\ aOut[c].state = "threw"
        /\ aOut[c].error.type = AnalysisFailed("none").type
        /\ Count(aLog[c], "writeFile") = 0
----------------------------------------------------------------------------
(* The modes of a query *)

\* C17: an execute query whose planner text parses to a document without an
\* explanation or without toolCalls fails with the failed-to-coordinate error
\* and returns no response.
C17_PlanShapeChecked ==
    \A s \in Slots :
      (q[s].mode = "execute" /\ q[s].text = "parsed"
       /\ q[s].explanation = "undefined") =>
        /\ q[s].pc = "failed"
        /\ q[s].error.type = Coordinate("none").type
        /\ q[s].resp = NoResp

\* handleExpertQuery was entered and the query has its outcome
Answered(s) == q[s].listReqs > 0 /\ q[s].pc \in {"done", "failed"}

\* C19: a discover query against a peer that answers the tool list succeeds
\* while the session is not shutting down: it returns the tools, and the
\* kinds the peer rejects as empty sequences.
C19_DiscoverPartialPeer ==
    \A s \in Slots :
      (q[s].mode = "discover" /\ Answered(s)
       /\ "tools" \in peer.supports /\ sig = NoSig) =>
        /\ q[s].pc = "done"
        /\ q[s].resp = DiscoverResponse([k \in ListKinds |-> Recorded(k)])

\* C20: a discover or explain query sends list requests only: three for
\* discover, one for explain, no planner call and no callTool; against a peer
\* answering the three lists it succeeds while the session is not shutting
\* down.
C20_NoPlannerInDiscoverExplain ==
    \A s \in Slots :
      (q[s].mode \in {"discover", "explain"} /\ q[s].listReqs > 0) =>
        /\ q[s].planner = 0 /\ q[s].text = "none"
        /\ q[s].invoked = <<>> /\ q[s].outstanding = 0
        /\ q[s].listReqs = IF q[s].mode = "discover" THEN 3 ELSE 1
        /\ q[s].pc \in {"discovering", "explaining", "done", "failed"}
        /\ (Answered(s) /\ peer.supports = ListKinds /\ sig = NoSig) =>
              /\ q[s].pc = "done"
              /\ q[s].resp.kind = q[s].mode
              /\ q[s].resp.tools = PeerTools

C20_Witness ==
    /\ q["q1"].mode = "discover" /\ q["q1"].pc = "done"
    /\ q["q2"].mode = "explain" /\ q["q2"].pc = "done"

\* C21: a query without mode and a query with mode execute that get the same
\* answers from the peer and the planner are at every step in the same state:
\* same list requests, same planner calls, same invocations, same response
\* or error.
C21_DefaultModeIsExecute ==
    /\ [q["q1"] EXCEPT !.mode = "execute"] = [q["q2"] EXCEPT !.mode = "execute"]
    /\ q["q1"].listReqs > 0 => q["q1"].mode = "execute" /\ q["q2"].mode = "execute"

C21_Witness ==
    /\ q["q1"].pc = "done" /\ q["q1"].resp.kind = "execute"
    /\ Len(q["q1"].resp.results) = 2
    /\ q["q2"].pc = "done"
----------------------------------------------------------------------------
(* The entry-point name *)

\* what each character of the name contributes: a whitespace character that
\* starts a run gives '-', one inside a run gives nothing, any other character
\* gives its lower-case form
Piece(name, i) ==
    IF name[i] \in Whitespace
    THEN IF i = 1 \/ name[i - 1] \notin Whitespace THEN "-" ELSE ""
    ELSE LowerChar(name[i])

IsPiece(c) == c # ""

\* the name lower-cased with one '-' for each maximal run of whitespace
Slug(name) == SelectSeq([i \in 1..Len(name) |-> Piece(name, i)], IsPiece)

\* C22: the name of the expert tool, and the name in the advertised tool
\* list, is the slug of the name in the descriptor file and depends on
\* nothing else.
C22_EntryPointName ==
    /\ expertTool # NoTool =>
          /\ config.name = configFile.doc.name
          /\ expertTool.name = Slug(configFile.doc.name)
    /\ advertised # NoList =>
          Len(advertised) = 1 /\ advertised[1].name = Slug(configFile.doc.name)

C22_Witness ==
    /\ advertised # NoList
    /\ \E i \in 1..(Len(config.name) - 1) :
          config.name[i] \in Whitespace /\ config.name[i + 1] \in Whitespace
----------------------------------------------------------------------------
(* The paths of the descriptor files *)

\* fs.writeFile of run c has just succeeded
WroteFile(c) ==
    /\ aPc[c] = "writing" /\ aPc'[c] # "writing"
    /\ aOut'[c].state \in {"returning", "returned"}

\* C23: a descriptor is never written to a path that already holds the
\* descriptor of an earlier run.
C23_FreshPath ==
    [][\A c \in Runs : WroteFile(c) => aOut[c].configPath \notin DOMAIN files]_vars
----------------------------------------------------------------------------
(* Discover mode *)

\* the discover query of the slot has its response
Discovered(s) == q[s].mode = "discover" /\ q[s].pc = "done"

\* C24: the response of a discover query holds the lists the peer returned
\* to that query, not the manifest of the descriptor; two discover queries of
\* one session hold the same lists.
C24_DiscoverIsFresh ==
    /\ \A s \in Slots : Discovered(s) =>
          /\ q[s].listReqs = 3
          /\ q[s].resp.kind = "discover"
          /\ q[s].resp.tools = PeerTools
          /\ q[s].resp.resources = PeerResources
          /\ q[s].resp.prompts = PeerPrompts
    /\ (Discovered("q1") /\ Discovered("q2")) => q["q1"].resp = q["q2"].resp

C24_Witness ==
    /\ Discovered("q1") /\ Discovered("q2")
    /\ q["q1"].resp.tools # config.doc.capabilities.tools
----------------------------------------------------------------------------
(* Queries of one session *)

\* the query has a list request or a callTool outstanding at the peer
PeerBusy(s) == q[s].pending # {} \/ q[s].outstanding > 0

\* the query is between its first request and its result
InFlight(s) == q[s].pc \in {"discovering", "explaining", "listing", "planning", "calling"}

\* C25: no two queries are in progress at once, so the peer never has
\* requests of two queries outstanding.
C25_OneQueryAtATime ==
    /\ ~(PeerBusy("q1") /\ PeerBusy("q2"))
    /\ ~(InFlight("q1") /\ InFlight("q2"))

\* the execute query failed on the planner: generateText rejected, or its
\* text did not parse or did not give a plan to iterate
FailedOnPlanner(s) ==
    /\ q[s].pc = "failed" /\ q[s].planner = 1
    /\ q[s].text \in {"rejected", "unparsable", "parsed"}
    /\ q[s].invoked = <<>>

\* the session serves as it did when startup ended
SessionIntact ==
    /\ proc = "running" /\ sPc = "Serving"
    /\ wrappedConn = "open" /\ serverConn = "open"
    /\ config = loadConfig(configFile).config
    /\ expertTool = createExpertTool(config)

\* C26: while no shutdown was asked for, a query that failed on the planner
\* leaves the session serving with its peer connection open and its
\* descriptor unchanged, and the error is that of the query alone.
C26_FailedQueryKeepsSession ==
    \A s \in Slots :
      (FailedOnPlanner(s) /\ sig = NoSig) =>
        /\ SessionIntact
        /\ q[s].error.type = Coordinate("none").type
        /\ \A t \in Slots \ {s} : q[t].error # q[s].error \/ q[t].pc = "failed"

C26_Witness ==
    /\ FailedOnPlanner("q1") /\ q["q1"].text = "rejected"
    /\ q["q2"].pc = "done" /\ q["q2"].resp.kind = "execute"
    /\ Len(q["q2"].resp.results) > 0
----------------------------------------------------------------------------
(* The requests of one execute query *)

\* handleExpertQuery runs the query in execute mode
Executing(s) == q[s].mode = "execute" /\ q[s].listReqs > 0

\* C27: an execute query sends one tool-list request, calls the planner at
\* most once and only after that list was answered, and has invoked exactly
\* the plan entries up to the current one, each once, whatever failed; a
\* completed query called the planner exactly once.
C27_NoRetry ==
    \A s \in Slots : Executing(s) =>
      /\ q[s].listReqs = 1
      /\ q[s].planner \in {0, 1}
      /\ q[s].planner = 1 <=> (q[s].pending = {} /\ q[s].lists["tools"] = PeerTools)
      /\ q[s].planner = 0 => q[s].text = "none" /\ q[s].invoked = <<>>
      /\ Len(q[s].invoked) = q[s].idx
      /\ q[s].invoked = PlanNames(q[s].items, q[s].idx)
      /\ Len(q[s].outcomes) <= Len(q[s].invoked)
      /\ q[s].pc = "done" => q[s].planner = 1 /\ Len(q[s].outcomes) = Len(q[s].items)

C27_Witness ==
    \E s \in Slots :
      /\ Executing(s) /\ q[s].pc = "done"
      /\ Len(q[s].items) = 2 /\ q[s].outcomes = <<FALSE, TRUE>>
      /\ q[s].items[1] = q[s].items[2]

\* C28: an execute query that fails with the failed-to-coordinate error has
\* invoked no tool; a query that has invoked a tool is calling or completes
\* with a response.
C28_NoFailureAfterInvocation ==
    \A s \in Slots : Executing(s) =>
      /\ (q[s].pc = "failed" /\ q[s].error.type = Coordinate("none").type) =>
            q[s].invoked = <<>>
      /\ q[s].invoked # <<>> => q[s].pc \in {"calling", "done"}
----------------------------------------------------------------------------
(* Success and failure of analyzeServer and of startWrapperServer *)

\* run c has written its descriptor and is about to return its path
Persisted(c) == aPc[c] = "closing" /\ aOut[c].state = "returning"

\* C29: a run that has written its descriptor returns, and a run that returns
\* has its descriptor at the path it returns.
C29_SuccessIffWritten ==
    [][\A c \in Runs :
         /\ Persisted(c) => aOut'[c].state \in {"returning", "returned"}
         /\ (aPc'[c] = "settled" /\ aOut'[c].state = "returned") =>
               aOut'[c].configPath \in DOMAIN files']_vars

\* C30: a serve session whose startup was rejected has no open peer
\* connection.
C30_NoLeakOnFailedStartup == sPc = "Rejected" => wrappedConn # "open"
====
